---- MODULE Spec2Model ----
\* A model of the stock-chatbot data-access layer (mcp-server/src/stock_data.py):
\* the rate_limit decorator, the lru_cache in front of get_stock_info, the
\* primary/fallback quote fetch, the history fetch, mover ranking and search.
\*
\* Time is counted in ticks of 0.1 s (the granularity of the jitter,
\* random.uniform(0.1, 0.4)); money and percentages are integers in units of
\* 0.01, so round(x, 2) is exact on every value the model draws.
\* Strings are sequences of one-character strings, so that upper(), lower() and
\* substring search are computed and not assumed.
EXTENDS Integers, Sequences, FiniteSets, TLC

\* ---------------------------------------------------------------- strings

UpperLetters ==
    <<"A","B","C","D","E","F","G","H","I","J","K","L","M",
      "N","O","P","Q","R","S","T","U","V","W","X","Y","Z">>

LowerLetters ==
    <<"a","b","c","d","e","f","g","h","i","j","k","l","m",
      "n","o","p","q","r","s","t","u","v","w","x","y","z">>

\* str.upper() on one character
UpperChar(c) ==
    IF \E i \in 1..26 : LowerLetters[i] = c
    THEN UpperLetters[CHOOSE i \in 1..26 : LowerLetters[i] = c]
    ELSE c

\* str.lower() on one character
LowerChar(c) ==
    IF \E i \in 1..26 : UpperLetters[i] = c
    THEN LowerLetters[CHOOSE i \in 1..26 : UpperLetters[i] = c]
    ELSE c

\* str.upper()
Upper(s) == [i \in 1..Len(s) |-> UpperChar(s[i])]

\* a lower() that leaves every character as it is
AsIs(s) == s

\* str.lower()
Lower(s) == [i \in 1..Len(s) |-> LowerChar(s[i])]

\* Python's  needle in hay  on strings
Contains(hay, needle) ==
    /\ Len(needle) <= Len(hay)
    /\ \E i \in 0..(Len(hay) - Len(needle)) :
          SubSeq(hay, i + 1, i + Len(needle)) = needle

\* ---------------------------------------------------------------- values

\* Python values carry their type: a number (in units of 0.01), a str, None,
\* a list; Missing stands for a key that an upstream dict does not hold.
Num(n) == [t |-> "num", n |-> n]

Str(s) == [t |-> "str", v |-> s]

None == [t |-> "none"]

Missing == [t |-> "missing"]

\* the 'N/A' placeholder of the result dicts
NA == Str("N/A")

\* Arguments as the callers can pass them: a str, or (from the JSON body of
\* /mcp, whose params are an untyped dict) a number or a list.
NumArg == Num(123)

ListArg == [t |-> "list"]

IsStr(a) == a.t = "str"

IsNumber(v) == v.t = "num"

\* hash(a) succeeds: a list is unhashable
Hashable(a) == a.t # "list"

\* ------------------------------------------------------------ alias table

\* the first entries of the table of load_nse_symbols, in insertion order
NseTable ==
    << <<"R","E","L","I","A","N","C","E">>,
       <<"T","C","S">>,
       <<"I","N","F","Y">>,
       <<"H","D","F","C","B","A","N","K">>,
       <<"I","C","I","C","I","B","A","N","K">>,
       <<"H","I","N","D","U","N","I","L","V","R">>,
       <<"S","B","I","N">> >>

\* how many entries of the table the model keeps (the code has 15)
TableLen == 4

DotNS == <<".","N","S">>

\* self.nse_symbols: a sequence of <<ticker, provider symbol>> (a dict in
\* insertion order); every provider symbol of the table is ticker + ".NS"
nse_symbols ==
    [i \in 1..TableLen |-> <<NseTable[i], NseTable[i] \o DotNS>>]

\* list(self.nse_symbols.keys())
Keys == [i \in 1..TableLen |-> nse_symbols[i][1]]

\* self.nse_symbols.get(symbol.upper(), f"{symbol.upper()}.NS")
ResolveSymbol(s) ==
    IF \E i \in 1..TableLen : nse_symbols[i][1] = Upper(s)
    THEN nse_symbols[CHOOSE i \in 1..TableLen : nse_symbols[i][1] = Upper(s)][2]
    ELSE Upper(s) \o DotNS

\* ------------------------------------------------------------- arithmetic

Abs(x) == IF x < 0 THEN -x ELSE x

\* n / d rounded to the nearest integer, ties to even (Python's round);
\* d # 0
RoundDiv(n, d) ==
    LET sgn == IF (n < 0) = (d < 0) THEN 1 ELSE -1
        a == Abs(n)
        b == Abs(d)
        q == a \div b
        r == a % b
        up == (2 * r > b) \/ (2 * r = b /\ q % 2 = 1)
    IN sgn * (IF up THEN q + 1 ELSE q)

\* Python truthiness of a number
Truthy(x) == x # 0

\* round((change / previous_close) * 100 if previous_close else 0, 2) on
\* numbers in units of 0.01: the percentage in units of 0.01 percent
ChangePercent(change, previous_close) ==
    IF Truthy(previous_close)
    THEN RoundDiv(change * 10000, previous_close)
    ELSE 0

\* ------------------------------------------------------- upstream answers

\* What  yf.Ticker(yf_symbol).info  can do: raise, be falsy ({} or None), or
\* be a dict in which any key may be absent (Missing) or null (None).
InfoRaise == [k |-> "raise"]

InfoEmpty == [k |-> "empty"]

InfoDict(price, prev, name, vol, sector) ==
    [k |-> "dict", regularMarketPrice |-> price, previousClose |-> prev,
     longName |-> name, volume |-> vol, sector |-> sector]

\* What  stock.history(period=...)  can do: raise, or return a frame of rows
\* (oldest first), possibly empty; Close and Volume are plain numbers.
HistRaise == [k |-> "raise"]

HistFrame(rows) == [k |-> "frame", rows |-> rows]

Row(date, close, volume) == [date |-> date, Close |-> close, Volume |-> volume]

\* --------------------------------------------------------- result records

\* {"error": f"..."}: the message keeps its fixed text, the symbol it quotes
\* (NA when it quotes none) and the exception text
ErrorResult(msg, symbol, exc) ==
    [error |-> [msg |-> msg, symbol |-> symbol, exc |-> exc]]

\* "error" in data
IsError(r) == "error" \in DOMAIN r

\* info.get(key, 'N/A'): the default only replaces an absent key
GetOrNA(v) == IF v = Missing THEN NA ELSE v

\* an upstream request and the provider's answer to it
InfoCall(info) == [req |-> "info", ans |-> info]

HistCall(hist) == [req |-> "history", ans |-> hist]

\* What one call of a function did: it returned a value or raised, and
\* `calls` lists the upstream requests it made, in order, with their answers.
Returned(value, calls) == [kind |-> "return", value |-> value, calls |-> calls]

Raised(exc, calls) == [kind |-> "raise", exc |-> exc, calls |-> calls]

\* ------------------------------------------------------ quote computation

\* the dict built by _fallback_stock_info from a non-empty frame
FallbackQuote(symbol, rows) ==
    LET current_price == rows[Len(rows)].Close
        prev_price == IF Len(rows) > 1 THEN rows[Len(rows) - 1].Close
                      ELSE current_price
        change == current_price - prev_price
    IN [symbol |-> Str(Upper(symbol.v)),
        company_name |-> Str(Upper(symbol.v)),
        current_price |-> Num(current_price),
        previous_close |-> Num(prev_price),
        change |-> Num(change),
        change_percent |-> Num(ChangePercent(change, prev_price)),
        volume |-> Num(rows[Len(rows)].Volume)]

\* _fallback_stock_info(symbol): one history request, every failure caught
fallback_stock_info(symbol, hist) ==
    IF hist.k = "raise"
    THEN Returned(ErrorResult("Fallback failed", NA, "upstream"),
                  <<HistCall(hist)>>)
    ELSE IF hist.rows = <<>>
    THEN Returned(ErrorResult("No fallback data available.", NA, NA),
                  <<HistCall(hist)>>)
    ELSE Returned(FallbackQuote(symbol, hist.rows), <<HistCall(hist)>>)

\* the dict built by get_stock_info from info, both prices being numbers;
\* market_cap, pe_ratio, dividend_yield, 52_week_high/low, sector and
\* industry are filled exactly like volume and are not repeated here
PrimaryQuote(symbol, info) ==
    LET current_price == info.regularMarketPrice.n
        previous_close == IF info.previousClose = Missing THEN current_price
                          ELSE info.previousClose.n
        change == current_price - previous_close
    IN [symbol |-> Str(Upper(symbol.v)),
        company_name |-> GetOrNA(info.longName),
        current_price |-> Num(current_price),
        previous_close |-> Num(previous_close),
        change |-> Num(change),
        change_percent |-> Num(ChangePercent(change, previous_close)),
        volume |-> GetOrNA(info.volume)]

\* the previous_close of line 81, which may be None
PreviousCloseOf(info) ==
    IF info.previousClose = Missing THEN info.regularMarketPrice
    ELSE info.previousClose

\* the body of get_stock_info (without its decorators)
stock_info_body(symbol, info, hist) ==
    IF ~IsStr(symbol)
    THEN \* symbol.upper() raises AttributeError inside the try
         Returned(ErrorResult("Error fetching data for", symbol, "AttributeError"),
                  <<>>)
    ELSE IF info.k = "raise"
    THEN Returned(ErrorResult("Error fetching data for", symbol, "upstream"),
                  <<InfoCall(info)>>)
    ELSE IF info.k = "empty" \/ info.regularMarketPrice = Missing
    THEN LET f == fallback_stock_info(symbol, hist)
         IN Returned(f.value, <<InfoCall(info)>> \o f.calls)
    ELSE IF ~IsNumber(info.regularMarketPrice) \/ ~IsNumber(PreviousCloseOf(info))
    THEN \* None - x raises TypeError inside the try
         Returned(ErrorResult("Error fetching data for", symbol, "TypeError"),
                  <<InfoCall(info)>>)
    ELSE Returned(PrimaryQuote(symbol, info), <<InfoCall(info)>>)

\* ------------------------------------------------------------------ state

VARIABLES
    clock,        \* time.time(), in ticks of 0.1 s
    last_called,  \* last_called[0] of each rate_limit closure, by operation
    cache,        \* the lru_cache of get_stock_info: entries, least recent first
    done_at,      \* observation: when each wrapped function last completed
    last,         \* observation: what the last top-level call did
    attempt,      \* call_mcp_server: the loop index of the attempt to make
    last_error,   \* call_mcp_server: its local last_error
    reply,        \* call_mcp_server: idle, running, or what it returned
    tried,        \* observation: the outcomes of the attempts made so far
    slept,        \* observation: the seconds call_mcp_server slept so far
    handlers,     \* server.py: where each request's handler stands
    running,      \* server.py: the handler the event loop is running, if any
    begun,        \* observation: every start of a wrapped function so far
    response,     \* observation: how the last /mcp request was answered
    messages      \* app.py: st.session_state.messages

\* the state of the data-access layer (mcp-server)
data_vars == <<clock, last_called, cache, done_at, last>>

\* the state of the client's call_mcp_server (streamlit-app)
client_vars == <<attempt, last_error, reply, tried, slept>>

\* the requests the server's event loop holds (mcp-server)
request_vars == <<handlers, running, begun, response>>

\* the chat history of the user's session (streamlit-app)
chat_vars == <<messages>>

\* the state of the streamlit-app
app_vars == <<client_vars, chat_vars>>

\* what an operation of the data-access layer called on its own leaves alone
beyond_data == <<app_vars, request_vars>>

\* what call_mcp_server leaves alone
beyond_client == <<data_vars, request_vars, chat_vars>>

\* what a run of the app's main leaves alone
beyond_chat == <<data_vars, request_vars, client_vars>>

vars == <<data_vars, client_vars, request_vars, chat_vars>>

Ops == {"stock", "hist", "movers"}

\* rate_limit(2) on get_stock_info, in ticks
StockInterval == 20

\* rate_limit(1) on get_historical_data, in ticks
HistInterval == 10

\* rate_limit(2) on get_top_gainers_losers, in ticks
MoversInterval == 20

min_interval(op) ==
    CASE op = "stock" -> StockInterval
      [] op = "hist" -> HistInterval
      [] op = "movers" -> MoversInterval

\* random.uniform(0.1, 0.4), in ticks
JitterMin == 1

JitterMax == 4

\* lru_cache(maxsize=...): the code's 128, scaled down; like the code's it
\* exceeds the length of the watch list
maxsize == 4

\* time.time() when the process starts: any time later than the epoch by more
\* than the longest interval (last_called starts at 0.0, the epoch)
StartClock == 20

\* the model stops issuing calls that would end after MaxClock
MaxClock == 130

\* gaps are recorded up to Horizon, which is at least every min_interval
Horizon == 25

Min(a, b) == IF a < b THEN a ELSE b

\* ------------------------------------------------------------- rate_limit

\* lines 18-20: the clock when func is called, after the optional sleep
AfterWait(clk, lastc, interval, jitter) ==
    LET elapsed == clk - lastc
    IN IF elapsed < interval THEN clk + (interval - elapsed + jitter)
       ELSE clk

\* line 22, reached only when func returned: last_called[0] = time.time()
Recorded(lc, op, res, at) ==
    IF res.kind = "return" THEN [lc EXCEPT ![op] = at] ELSE lc

\* The state a call works on: the program's clock, closures and cache, and
\* the observation `gaps`: for each operation, the shortest time seen in the
\* current top-level call between a completion (return or raise) of its
\* wrapped function and the next start of that function (Horizon when none
\* started), and the observation `starts`: the wrapped functions the call
\* started, in order, each with its time.
Machine(clk, lc, ch, da) ==
    [clock |-> clk, last_called |-> lc, cache |-> ch, done_at |-> da,
     gaps |-> [op \in Ops |-> Horizon], starts |-> <<>>]

\* func is entered at time `at`
Entered(mach, op, at) ==
    [mach EXCEPT !.clock = at,
                 !.gaps[op] = Min(@, Min(at - mach.done_at[op], Horizon)),
                 !.starts = Append(@, [op |-> op, at |-> at])]

\* func is left at time `at` with outcome `res`; the wrapper then runs line 22
Left(mach, op, res, at) ==
    [mach EXCEPT !.clock = at,
                 !.done_at[op] = at,
                 !.last_called = Recorded(@, op, res, at)]

\* -------------------------------------------------------------- lru_cache

\* a cache that never finds a key
NeverCached(ch, key) == 0

\* the position of key in the cache, 0 when absent
CacheIndex(ch, key) ==
    IF \E i \in 1..Len(ch) : ch[i].key = key
    THEN CHOOSE i \in 1..Len(ch) : ch[i].key = key
    ELSE 0

\* a hit makes the entry the most recently used
CacheHit(ch, i) ==
    SubSeq(ch, 1, i - 1) \o SubSeq(ch, i + 1, Len(ch)) \o <<ch[i]>>

\* a miss stores the result, dropping the least recently used entry of a
\* full cache; `at` is an observation (lru_cache keeps no time): when the
\* entry was stored
CacheInsert(ch, key, value, at) ==
    LET e == [key |-> key, value |-> value, at |-> at]
    IN IF Len(ch) >= maxsize THEN Tail(ch) \o <<e>> ELSE Append(ch, e)

\* a miss: the body ran at mach.clock with outcome `body`, each upstream
\* request taking `lat` ticks, and its result is stored
cache_miss(mach, symbol, body, lat) ==
    [out |-> body,
     cache |-> CacheInsert(mach.cache, symbol, body.value,
                           mach.clock + lat * Len(body.calls)),
     end |-> mach.clock + lat * Len(body.calls), age |-> 0]

\* a hit on entry i: the stored result is returned, the body does not run
cache_hit(mach, i) ==
    [out |-> Returned(mach.cache[i].value, <<>>),
     cache |-> CacheHit(mach.cache, i), end |-> mach.clock,
     age |-> mach.clock - mach.cache[i].at]

\* the lru_cache wrapper around the body of get_stock_info, called at
\* mach.clock.  The key is hashed first, so an unhashable symbol raises
\* TypeError before anything else happens.
cached_stock_info(mach, symbol, info, hist, lat) ==
    IF ~Hashable(symbol)
    THEN [out |-> Raised("TypeError", <<>>), cache |-> mach.cache,
          end |-> mach.clock, age |-> 0]
    ELSE IF CacheIndex(mach.cache, symbol) > 0
    THEN cache_hit(mach, CacheIndex(mach.cache, symbol))
    ELSE cache_miss(mach, symbol, stock_info_body(symbol, info, hist), lat)

\* the rate_limit wrapper after func (the lru_cache wrapper) finished with c
stock_info_return(entered, c) ==
    [m |-> Left([entered EXCEPT !.cache = c.cache], "stock", c.out, c.end),
     out |-> c.out, age |-> c.age]

\* the rate_limit wrapper from the call of func on
stock_info_call(entered, symbol, info, hist, lat) ==
    stock_info_return(entered,
                      cached_stock_info(entered, symbol, info, hist, lat))

\* get_stock_info as callers see it: rate_limit(2) around lru_cache around
\* the body.  The result is the new machine, the call's outcome and the age
\* of the cache entry returned.
get_stock_info(m, symbol, info, hist, jitter, lat) ==
    stock_info_call(
        Entered(m, "stock",
                AfterWait(m.clock, m.last_called["stock"], StockInterval,
                          jitter)),
        symbol, info, hist, lat)

\* ---------------------------------------------------- get_historical_data

\* one dict of hist_data; open, high and low are rounded like close
HistoryPoint(row) ==
    [date |-> row.date, close |-> Num(row.Close), volume |-> Num(row.Volume)]

\* a body that does not look whether the frame is empty
historical_data_unchecked(symbol, period, hist) ==
    IF ~IsStr(symbol)
    THEN Returned(ErrorResult("Error fetching historical data for", symbol,
                              "AttributeError"), <<>>)
    ELSE IF hist.k = "raise"
    THEN Returned(ErrorResult("Error fetching historical data for", symbol,
                              "upstream"), <<HistCall(hist)>>)
    ELSE Returned([symbol |-> Str(Upper(symbol.v)), period |-> period,
                   data |-> [i \in 1..Len(hist.rows) |->
                                HistoryPoint(hist.rows[i])]],
                  <<HistCall(hist)>>)

\* the body of get_historical_data (without its decorator)
historical_data_body(symbol, period, hist) ==
    IF ~IsStr(symbol)
    THEN \* symbol.upper() raises AttributeError inside the try
         Returned(ErrorResult("Error fetching historical data for", symbol,
                              "AttributeError"), <<>>)
    ELSE IF hist.k = "raise"
    THEN Returned(ErrorResult("Error fetching historical data for", symbol,
                              "upstream"), <<HistCall(hist)>>)
    ELSE IF hist.rows = <<>>
    THEN Returned(ErrorResult("No historical data found for", symbol, NA),
                  <<HistCall(hist)>>)
    ELSE Returned([symbol |-> Str(Upper(symbol.v)), period |-> period,
                   data |-> [i \in 1..Len(hist.rows) |->
                                HistoryPoint(hist.rows[i])]],
                  <<HistCall(hist)>>)

\* the rate_limit wrapper of get_historical_data from the call of func on
historical_data_call(entered, body, lat) ==
    [m |-> Left(entered, "hist", body, entered.clock + lat * Len(body.calls)),
     out |-> body]

\* get_historical_data as callers see it: rate_limit(1) around the body
get_historical_data(m, symbol, period, hist, jitter, lat) ==
    historical_data_call(
        Entered(m, "hist",
                AfterWait(m.clock, m.last_called["hist"], HistInterval,
                          jitter)),
        historical_data_body(symbol, period, hist), lat)

\* ---------------------------------------------------------- search_stocks

\* results[:10], the code's 10 scaled down
SearchLimit == 3

\* s[:n]
Take(s, n) == SubSeq(s, 1, Min(n, Len(s)))

\* the dict appended for a matching ticker, given the provider's answer
SearchEntry(symbol, info) ==
    IF info.k = "dict"
    THEN [symbol |-> Str(symbol), company_name |-> GetOrNA(info.longName),
          sector |-> GetOrNA(info.sector)]
    ELSE \* a raise is caught; an empty dict has neither key
         [symbol |-> Str(symbol), company_name |-> NA, sector |-> NA]

\* one more match in front of the matches found later in the loop
SearchJoin(entry, info, rest) ==
    [results |-> <<entry>> \o rest.results,
     calls |-> <<InfoCall(info)>> \o rest.calls]

\* the loop of search_stocks over the entries from i on; env[i] is what the
\* provider answers for the i-th ticker
RECURSIVE SearchFrom(_, _, _)
SearchFrom(i, query_lower, env) ==
    IF i > TableLen THEN [results |-> <<>>, calls |-> <<>>]
    ELSE IF Contains(Lower(nse_symbols[i][1]), query_lower)
    THEN SearchJoin(SearchEntry(nse_symbols[i][1], env[i]), env[i],
                    SearchFrom(i + 1, query_lower, env))
    ELSE SearchFrom(i + 1, query_lower, env)

\* results[:10] of what the loop collected
search_return(r) == Returned(Take(r.results, SearchLimit), r.calls)

\* search_stocks(query): query.lower() is outside every try
search_stocks(query, env) ==
    IF ~IsStr(query) THEN Raised("AttributeError", <<>>)
    ELSE search_return(SearchFrom(1, Lower(query.v), env))

\* ------------------------------------------------- get_top_gainers_losers

\* list(self.nse_symbols.keys())[:10], the code's 10 scaled down
WatchLimit == 3

\* the [:5] of gainers and losers, scaled down
TopK == 2

\* s.get('change_percent', 0)
Pct(q) == IF "change_percent" \in DOMAIN q THEN q.change_percent.n ELSE 0

\* a sort that puts x in front of the elements with an equal key
InsertUnstable(s, x, reverse) ==
    LET stays(y) == IF reverse THEN Pct(y) > Pct(x) ELSE Pct(y) < Pct(x)
        p == Cardinality({j \in 1..Len(s) : stays(s[j])})
    IN SubSeq(s, 1, p) \o <<x>> \o SubSeq(s, p + 1, Len(s))

\* where sorted() puts x into the sorted list s: after every element that
\* does not have to come later, so that equal keys keep their order
InsertSorted(s, x, reverse) ==
    LET stays(y) == IF reverse THEN Pct(y) >= Pct(x) ELSE Pct(y) <= Pct(x)
        p == Cardinality({j \in 1..Len(s) : stays(s[j])})
    IN SubSeq(s, 1, p) \o <<x>> \o SubSeq(s, p + 1, Len(s))

\* sorted(s, key=change_percent, reverse=reverse): a stable sort
RECURSIVE Sorted(_, _)
Sorted(s, reverse) ==
    IF s = <<>> THEN <<>>
    ELSE InsertSorted(Sorted(SubSeq(s, 1, Len(s) - 1), reverse), s[Len(s)],
                      reverse)

IsGainer(q) == Pct(q) > 0

IsLoser(q) == Pct(q) < 0

\* if "error" not in data: stocks_data.append(data)
Usable(data) == ~IsError(data)

\* sorted([s for s in stocks_data if pct > 0], key=pct, reverse=True)[:5]
top_gainers(quotes) == Take(Sorted(SelectSeq(quotes, IsGainer), TRUE), TopK)

\* sorted([s for s in stocks_data if pct < 0], key=pct)[:5]
top_losers(quotes) == Take(Sorted(SelectSeq(quotes, IsLoser), FALSE), TopK)

\* the watch list
WatchList == Take(Keys, WatchLimit)

\* the result r of one symbol in front of the rest of the sweep
SweepJoin(r, rest) ==
    [m |-> rest.m, sweep |-> <<r.out.value>> \o rest.sweep,
     calls |-> r.out.calls \o rest.calls]

\* the loop of get_top_gainers_losers from the i-th symbol on: each symbol
\* goes through get_stock_info (throttle and cache included); env[i] holds
\* the provider's answers for the i-th symbol
RECURSIVE Sweep(_, _, _, _, _)
RECURSIVE SweepAfter(_, _, _, _, _)
Sweep(mach, i, env, jitter, lat) ==
    IF i > Len(WatchList) THEN [m |-> mach, sweep |-> <<>>, calls |-> <<>>]
    ELSE SweepAfter(get_stock_info(mach, Str(WatchList[i]), env[i].info,
                                   env[i].hist, jitter, lat),
                    i, env, jitter, lat)

\* the loop after the i-th symbol gave r
SweepAfter(r, i, env, jitter, lat) ==
    SweepJoin(r, Sweep(r.m, i + 1, env, jitter, lat))

\* the dict get_top_gainers_losers returns
MoverList(stocks_data, now) ==
    [top_gainers |-> top_gainers(stocks_data),
     top_losers |-> top_losers(stocks_data), timestamp |-> now]

\* the rate_limit wrapper after func returned `result`
movers_return(w, result) ==
    [m |-> Left(w.m, "movers", result, w.m.clock), out |-> result,
     sweep |-> w.sweep]

\* a ranking that gives up when a symbol of the sweep failed
movers_abort(w) ==
    IF \E p \in 1..Len(w.sweep) : IsError(w.sweep[p])
    THEN [m |-> Left(w.m, "movers", Raised("KeyError", w.calls), w.m.clock),
          out |-> Raised("KeyError", w.calls), sweep |-> w.sweep]
    ELSE movers_return(w, Returned(MoverList(w.sweep, w.m.clock), w.calls))

\* the body of get_top_gainers_losers after the sweep w
movers_rank(w) ==
    movers_return(w, Returned(MoverList(SelectSeq(w.sweep, Usable), w.m.clock),
                              w.calls))

\* get_top_gainers_losers as callers see it: rate_limit(2) around the body
get_top_gainers_losers(m, env, jitter, lat) ==
    movers_rank(
        Sweep(Entered(m, "movers",
                      AfterWait(m.clock, m.last_called["movers"],
                                MoversInterval, jitter)),
              1, env, jitter, lat))

\* ---------------------------------------------------------------- actions

\* last: the operation called, its argument, its outcome, the gaps seen, for
\* get_stock_info the age of the cache entry it returned (0 on a miss), and
\* for get_top_gainers_losers every per-symbol result of the sweep
NoCall ==
    [op |-> "none", arg |-> NA, out |-> Returned(NA, <<>>),
     gaps |-> [op \in Ops |-> Horizon], age |-> 0, sweep |-> <<>>]

\* a message of the chat history; n is an observation, the number of the
\* message among all messages ever appended
Message(role, content, about, n) ==
    [role |-> role, content |-> content, about |-> about, n |-> n]

\* init_session_state: the history starts with the welcome message
Welcome == Message("assistant", "welcome_message", NA, 1)

\* what the client of /mcp gets: the HTTP status and the fields of the body
\* (payload is its "data" or its "error"), with the request it answers
Answered(status, success, payload, method, arg) ==
    [status |-> status, success |-> success, payload |-> payload,
     method |-> method, arg |-> arg]

\* no /mcp request has been answered yet
NoResponse == Answered(0, FALSE, NA, "none", NA)

\* the requests in flight at once, the server's many scaled down
NumRequests == 3

Requests == 1..NumRequests

\* running when the event loop is between handlers
Nobody == 0

\* no request with this number has arrived yet
NoHandler == [pc |-> "none", op |-> "none", wake |-> 0]

Init ==
    /\ clock = StartClock
    /\ last_called = [op \in Ops |-> 0]
    /\ cache = <<>>
    /\ done_at = [op \in Ops |-> 0]
    /\ last = NoCall
    /\ attempt = 0
    /\ last_error = None
    /\ reply = [kind |-> "idle"]
    /\ tried = <<>>
    /\ slept = 0
    /\ handlers = [r \in Requests |-> NoHandler]
    /\ running = Nobody
    /\ begun = <<>>
    /\ response = NoResponse
    /\ messages = <<Welcome>>

\* the program's state after a call that left machine `after`
Becomes(after) ==
    /\ after.clock <= MaxClock
    /\ clock' = after.clock
    /\ last_called' = after.last_called
    /\ cache' = after.cache
    /\ done_at' = after.done_at

Now == Machine(clock, last_called, cache, done_at)

\* what a top-level call of `op` with argument `arg` leaves behind, r being
\* what the operation gave
Served(op, arg, r, sweep) ==
    /\ Becomes(r.m)
    /\ last' = [op |-> op, arg |-> arg, out |-> r.out, gaps |-> r.m.gaps,
                age |-> IF op = "stock" THEN r.age ELSE 0, sweep |-> sweep]

\* a top-level call made on its own, outside a request
Called(op, arg, r, sweep) ==
    /\ Served(op, arg, r, sweep)
    /\ UNCHANGED beyond_data

\* a caller (server.py: get_stock, mcp_handler) calls get_stock_info(symbol);
\* the provider answers info and hist, the sleep draws jitter
GetStockInfo(symbol, info, hist, jitter, lat) ==
    Called("stock", symbol,
           get_stock_info(Now, symbol, info, hist, jitter, lat), <<>>)

\* a caller calls get_historical_data(symbol, period)
GetHistoricalData(symbol, period, hist, jitter, lat) ==
    Called("hist", symbol,
           get_historical_data(Now, symbol, period, hist, jitter, lat), <<>>)

\* the sweep is kept for observation
MoversCalled(r) == Called("movers", NA, r, r.sweep)

\* a caller calls get_top_gainers_losers()
GetTopGainersLosers(env, jitter, lat) ==
    MoversCalled(get_top_gainers_losers(Now, env, jitter, lat))

\* what a call of search_stocks leaves behind: no throttle, no cache; each
\* upstream request took lat ticks
SearchServed(query, res, lat) ==
    /\ clock + lat * Len(res.calls) <= MaxClock
    /\ clock' = clock + lat * Len(res.calls)
    /\ last' = [op |-> "search", arg |-> query, out |-> res,
                gaps |-> [op \in Ops |-> Horizon], age |-> 0,
                sweep |-> <<>>]
    /\ UNCHANGED <<last_called, cache, done_at>>

\* a call of search_stocks made on its own, outside a request
Searched(query, res, lat) ==
    /\ SearchServed(query, res, lat)
    /\ UNCHANGED beyond_data

\* a caller calls search_stocks(query)
SearchStocks(query, env, lat) == Searched(query, search_stocks(query, env), lat)

\* line 72 (and 108, 146) on its own: the provider symbol the body asks the
\* provider for, given the symbol a caller passed
ResolveTicker(symbol) ==
    /\ last' = [op |-> "resolve", arg |-> symbol,
                out |-> Returned(Str(ResolveSymbol(symbol.v)), <<>>),
                gaps |-> [op \in Ops |-> Horizon], age |-> 0, sweep |-> <<>>]
    /\ UNCHANGED <<clock, last_called, cache, done_at>>
    /\ UNCHANGED beyond_data

\* d ticks pass with no call in progress
Idle(d) ==
    /\ clock + d <= MaxClock
    /\ clock' = clock + d
    /\ UNCHANGED <<last_called, cache, done_at, last>>
    /\ UNCHANGED beyond_data

\* -------------------------------------------------------- call_mcp_server

\* max_retries: int = 3; every caller uses the default
max_retries == 3

\* what one requests.post can come to: a response that passes
\* raise_for_status, a 429, a Timeout, a ConnectionError, a response with
\* another error status (500, 404), another RequestException
Outcomes == {"ok", "429", "timeout", "connection", "500", "404", "other"}

\* the last_error an attempt with this outcome leaves (lines 45-66); a 429 is
\* handled at lines 36-40, which assign nothing
ErrorAfter(outcome, before) ==
    CASE outcome = "429" -> before
      [] outcome = "timeout" -> Str("Request timed out")
      [] outcome = "connection" -> Str("Connection error")
      [] outcome = "500" -> Str("Server error")
      [] outcome = "404" -> Str("HTTP error 404")
      [] outcome = "other" -> Str("Request failed")

\* the seconds slept after a failed attempt: 2 ** attempt after a 429, 1 or
\* 2 after a timeout or connection error that is not the last attempt
SleepAfter(outcome, i) ==
    CASE outcome = "429" -> 2 ^ i
      [] outcome = "timeout" -> IF i < max_retries - 1 THEN 1 ELSE 0
      [] outcome = "connection" -> IF i < max_retries - 1 THEN 2 ELSE 0
      [] OTHER -> 0

\* a caller (get_stock_info, get_market_movers, ... of StockChatbot) calls
\* call_mcp_server: lines 20-22
CallMcpServer ==
    /\ reply.kind # "running"
    /\ attempt' = 0
    /\ last_error' = None
    /\ reply' = [kind |-> "running"]
    /\ tried' = <<>>
    /\ slept' = 0
    /\ UNCHANGED beyond_client

\* one pass of the for loop (lines 24-66) in which requests.post comes to
\* `outcome`
Attempt(outcome) ==
    /\ reply.kind = "running"
    /\ attempt < max_retries
    /\ tried' = Append(tried, outcome)
    /\ IF outcome = "ok"
       THEN /\ reply' = [kind |-> "returned",
                         value |-> [success |-> TRUE, error |-> None]]
            /\ UNCHANGED <<attempt, last_error, slept>>
       ELSE /\ attempt' = attempt + 1
            /\ last_error' = ErrorAfter(outcome, last_error)
            /\ slept' = slept + SleepAfter(outcome, attempt)
            /\ UNCHANGED reply
    /\ UNCHANGED beyond_client

\* the loop is exhausted: line 68
GiveUp ==
    /\ reply.kind = "running"
    /\ attempt >= max_retries
    /\ reply' = [kind |-> "returned",
                 value |-> [success |-> FALSE, error |-> last_error]]
    /\ UNCHANGED <<attempt, last_error, tried, slept>>
    /\ UNCHANGED beyond_client

\* the client calling the server again and again
NextClient ==
    \/ CallMcpServer
    \/ \E outcome \in Outcomes : Attempt(outcome)
    \/ GiveUp

SpecClient == Init /\ [][NextClient]_vars

\* C12: call_mcp_server makes at most max_retries attempts, returns at the
\* first successful response, and when every attempt failed returns a
\* failure whose error is a reason, never null.
C12_BoundedRetryWithReason ==
    /\ Len(tried) <= max_retries
    /\ \A i \in 1..(Len(tried) - 1) : tried[i] # "ok"
    /\ (reply.kind = "returned" /\ \A i \in 1..Len(tried) : tried[i] # "ok")
          => (reply.value.success = FALSE /\ reply.value.error # None)

\* ------------------------------------------------------------ quote inputs

TCS == <<"T","C","S">>

tcs == <<"t","c","s">>

INFY == <<"I","N","F","Y">>

FOO == <<"F","O","O">>

OkInfo(price, prev) ==
    InfoDict(Num(price), Num(prev), Str("Name"), Num(500), Str("IT"))

\* info answers: raise, falsy, and dicts with the price keys and the volume
\* absent, null or set (prices 105.00, 100.00 and 0)
QuoteInfos ==
    {InfoRaise, InfoEmpty}
    \cup {InfoDict(p, q, Str("Name"), v, Str("IT")) :
            p \in {Missing, None, Num(10500)},
            q \in {Missing, None, Num(0), Num(10000)},
            v \in {Missing, None, Num(500)}}

\* history answers: raise, no rows, one row, two rows (the earlier close 0
\* or not)
QuoteHists ==
    {HistRaise, HistFrame(<<>>), HistFrame(<<Row("d2", 10500, 500)>>),
     HistFrame(<<Row("d1", 10000, 400), Row("d2", 10500, 500)>>),
     HistFrame(<<Row("d1", 0, 400), Row("d2", 10500, 500)>>)}

QuoteSymbols == {Str(TCS), NumArg, ListArg}

\* calls of SpecQuote begin no later than this
QuoteUntil == 62

NextQuote ==
    \E symbol \in QuoteSymbols, info \in QuoteInfos, hist \in QuoteHists :
        /\ clock <= QuoteUntil
        /\ GetStockInfo(symbol, info, hist, JitterMin, 0)

\* get_stock_info under every upstream answer
SpecQuote == Init /\ [][NextQuote]_vars

\* the last call was a call of get_stock_info whose body ran and returned
StockBodyReturned ==
    /\ last.op = "stock"
    /\ last.out.kind = "return"
    /\ last.out.calls # <<>>

\* C4: get_stock_info returns an error result only after the secondary
\* strategy was attempted, that is, after a history request was made.
C4_FallbackBeforeError ==
    (StockBodyReturned /\ IsError(last.out.value))
        => \E i \in 1..Len(last.out.calls) : last.out.calls[i].req = "history"

\* the quote of the last call was built with no prior close to divide by:
\* the prior close is zero, or the provider's info has no previousClose, or
\* the fallback's history has a single row
NoValidDivisor ==
    \/ last.out.value.previous_close = Num(0)
    \/ /\ Len(last.out.calls) = 1
       /\ last.out.calls[1].ans.previousClose = Missing
    \/ /\ Len(last.out.calls) = 2
       /\ Len(last.out.calls[2].ans.rows) = 1

\* C6: in a quote returned by get_stock_info, change_percent is the 'N/A'
\* sentinel whenever previous_close is zero or unavailable.
C6_SentinelWithoutDivisor ==
    (StockBodyReturned /\ ~IsError(last.out.value) /\ NoValidDivisor)
        => last.out.value.change_percent = NA

\* the last call built its quote from this info dict, whose price is a number
PrimaryAnswer == last.out.calls[1].ans

PricedByPrimary ==
    /\ StockBodyReturned
    /\ Len(last.out.calls) = 1
    /\ PrimaryAnswer.k = "dict"
    /\ IsNumber(PrimaryAnswer.regularMarketPrice)

\* C14: a quote is returned whatever else the provider left out; none of
\* its fields is null, and previous_close and volume are 'N/A' when the
\* provider's value is absent or null.
C14_AbsentFieldsAreSentinel ==
    PricedByPrimary
        => /\ ~IsError(last.out.value)
           /\ \A f \in DOMAIN last.out.value : last.out.value[f] # None
           /\ PrimaryAnswer.previousClose \in {Missing, None}
                 => last.out.value.previous_close = NA
           /\ PrimaryAnswer.volume \in {Missing, None}
                 => last.out.value.volume = NA

\* ------------------------------------------------------------ cache inputs

CacheSymbols == {Str(TCS), Str(tcs), Str(INFY), ListArg}

CacheInfos == {OkInfo(10500, 10000), InfoRaise}

\* calls of SpecCache begin no later than this
CacheUntil == 90

NextCache ==
    \/ \E symbol \in CacheSymbols, info \in CacheInfos :
          /\ clock <= CacheUntil
          /\ GetStockInfo(symbol, info, HistRaise, JitterMin, 0)
    \/ clock <= CacheUntil /\ Idle(StockInterval)

\* get_stock_info called again and again, with time passing
SpecCache == Init /\ [][NextCache]_vars

\* the time-to-live the cache is said to have; lru_cache has none, so this is
\* a window for stating expiry, longer than one throttle interval
Ttl == 30

\* a step that is a call of get_stock_info(symbol)
IsStockCall(symbol) ==
    \E info \in CacheInfos : GetStockInfo(symbol, info, HistRaise, JitterMin, 0)

\* C2: of two successive calls of get_stock_info with the same symbol, the
\* second makes no upstream request (no quote fetch, no history fetch) and
\* returns what the first returned; this holds however far apart the calls
\* are, so in particular within any ttl window.
C2_SecondCallFromCache ==
    [][(/\ last.op = "stock"
        /\ last.out.kind = "return"
        /\ IsStockCall(last.arg))
       => (/\ last'.out.kind = "return"
           /\ last'.out.calls = <<>>
           /\ last'.out.value = last.out.value)]_vars

\* a call answered from an entry stored within the window, with no upstream
\* request
C2_HitWithinTtl ==
    /\ last.op = "stock"
    /\ last.out.kind = "return"
    /\ last.out.calls = <<>>
    /\ last.age > 0
    /\ last.age <= Ttl

\* C3: a cached get_stock_info result is never returned once it is older
\* than its time-to-live.
C3_NoHitPastTtl == last.op = "stock" => last.age <= Ttl

\* C17: the cache is keyed by the canonicalized ticker: a call of
\* get_stock_info right after a call whose symbol differs from its own at
\* most in letter case makes no upstream request and returns the same
\* result.
C17_KeyedByCanonicalTicker ==
    [][\A symbol \in CacheSymbols :
          (/\ last.op = "stock"
           /\ last.out.kind = "return"
           /\ IsStr(last.arg)
           /\ IsStr(symbol)
           /\ Upper(symbol.v) = Upper(last.arg.v)
           /\ IsStockCall(symbol))
          => (/\ last'.out.calls = <<>>
              /\ last'.out.value = last.out.value)]_vars

\* --------------------------------------------------------- eviction inputs

\* one ticker more than the cache holds
EvictSymbols == {Str(NseTable[i]) : i \in 1..(maxsize + 1)}

\* calls of SpecEvict begin no later than this: time for maxsize + 2 calls
EvictUntil == 104

NextEvict ==
    \E symbol \in EvictSymbols :
        /\ clock <= EvictUntil
        /\ GetStockInfo(symbol, OkInfo(10500, 10000), HistRaise, JitterMin, 0)

\* get_stock_info called with more symbols than the cache holds
SpecEvict == Init /\ [][NextEvict]_vars

\* the keys a cache holds
KeysOf(ch) == {ch[i].key : i \in 1..Len(ch)}

\* C15: the cache never holds more than maxsize entries, and an entry that a
\* step drops is the one inserted earliest, whatever was read since.
C15_EvictsOldestInserted ==
    [][/\ Len(cache') <= maxsize
       /\ \A i \in 1..Len(cache) :
             cache[i].key \notin KeysOf(cache')
                => \A j \in 1..Len(cache) : cache[i].at <= cache[j].at]_vars

\* ----------------------------------------------------------- mover inputs

\* per-symbol answers of a sweep: +5.00, +2.00, 0.00, -1.00 and -3.00
\* percent, and a failure
MoverAnswers ==
    {[info |-> OkInfo(10500, 10000), hist |-> HistRaise],
     [info |-> OkInfo(10200, 10000), hist |-> HistRaise],
     [info |-> OkInfo(10000, 10000), hist |-> HistRaise],
     [info |-> OkInfo(9900, 10000), hist |-> HistRaise],
     [info |-> OkInfo(9700, 10000), hist |-> HistRaise],
     [info |-> InfoRaise, hist |-> HistRaise]}

\* calls of SpecMovers begin no later than this
MoversUntil == 41

NextMovers ==
    \/ \E env \in [1..Len(WatchList) -> MoverAnswers] :
          /\ clock <= MoversUntil
          /\ GetTopGainersLosers(env, JitterMin, 0)
    \/ \E a \in MoverAnswers :
          /\ clock <= MoversUntil
          /\ GetStockInfo(Str(TCS), a.info, a.hist, JitterMin, 0)

\* mover ranking under every combination of per-symbol answers
SpecMovers == Init /\ [][NextMovers]_vars

\* the two lists of the last call of get_top_gainers_losers
Gainers == last.out.value.top_gainers

Losers == last.out.value.top_losers

\* the places of the watch list whose quote failed, rose, fell
Failed == {p \in 1..Len(last.sweep) : IsError(last.sweep[p])}

Rising ==
    {p \in 1..Len(last.sweep) :
        ~IsError(last.sweep[p]) /\ last.sweep[p].change_percent.n > 0}

Falling ==
    {p \in 1..Len(last.sweep) :
        ~IsError(last.sweep[p]) /\ last.sweep[p].change_percent.n < 0}

\* the quote at place p is ranked ahead of the quote at place q: by
\* change_percent, and by place in the watch list when they are equal
Ahead(p, q, descending) ==
    LET a == last.sweep[p].change_percent.n
        b == last.sweep[q].change_percent.n
    IN \/ IF descending THEN a > b ELSE a < b
       \/ a = b /\ p < q

\* the quotes at places P, each at the rank given by how many are ahead of
\* it, cut to the first TopK
Ranking(P, descending) ==
    [k \in 1..Min(TopK, Cardinality(P)) |->
        last.sweep[CHOOSE p \in P :
                      Cardinality({q \in P : Ahead(q, p, descending)}) = k - 1]]

\* C7: top_gainers is exactly the quotes with change_percent > 0 in
\* descending order and top_losers those with change_percent < 0 in ascending
\* order, equal values in watch-list order, each cut to the first TopK; a
\* quote with change_percent 0 is in neither.
C7_MoversRanked ==
    last.op = "movers"
        => /\ Gainers = Ranking(Rising, TRUE)
           /\ Losers = Ranking(Falling, FALSE)

\* more gainers than places, and the two at the top tie
C7_TieAndCut ==
    /\ last.op = "movers"
    /\ Cardinality(Rising) > TopK
    /\ Len(Gainers) = TopK
    /\ Gainers[1].change_percent = Gainers[2].change_percent
    /\ Gainers[1] # Gainers[2]

\* every quote in one of the two lists
Listed ==
    {Gainers[k] : k \in 1..Len(Gainers)} \cup {Losers[k] : k \in 1..Len(Losers)}

\* C8: a symbol whose quote is an error result is in neither list and does
\* not abort the ranking: the call returns, and the lists are filled from
\* the symbols that did not fail.
C8_FailuresExcluded ==
    last.op = "movers"
        => /\ last.out.kind = "return"
           /\ \A p \in Failed : last.sweep[p] \notin Listed
           /\ \A q \in Listed :
                 \E p \in Rising \cup Falling : last.sweep[p] = q
           /\ Len(Gainers) = Min(TopK, Cardinality(Rising))
           /\ Len(Losers) = Min(TopK, Cardinality(Falling))

\* a sweep in which a symbol failed and another is ranked as a gainer
C8_RankedDespiteFailure ==
    /\ last.op = "movers"
    /\ Failed # {}
    /\ Rising # {}
    /\ Len(Gainers) = Cardinality(Rising)

\* ---------------------------------------------------------- search inputs

Queries ==
    {Str(<<"t","c">>), Str(<<"T","C">>), Str(<<"z","z","z">>), Str(<<"I">>),
     Str(<<"c">>), Str(<<>>), Str(<<"i","N","f","Y">>), NumArg}

SearchInfos ==
    {InfoRaise, InfoEmpty,
     InfoDict(Missing, Missing, Str("Name"), Missing, Missing)}

\* search_stocks reads no state: one call from the initial state shows all
\* it can do
NextSearch ==
    \E query \in Queries, env \in [1..TableLen -> SearchInfos] :
        /\ last.op = "none"
        /\ SearchStocks(query, env, 1)

\* search_stocks under every combination of per-ticker answers
SpecSearch == Init /\ [][NextSearch]_vars

\* the shortest of the configured minimum intervals
SmallestInterval == Min(HistInterval, Min(StockInterval, MoversInterval))

\* C13: no two upstream requests fire closer together than the minimum
\* interval; so a call that made n requests one after the other lasted at
\* least n - 1 intervals.
C13_UpstreamRequestsSpaced ==
    [][Len(last'.out.calls) >= 2
          => clock' - clock >= (Len(last'.out.calls) - 1) * SmallestInterval]_vars

\* the ticker contains the query when case is ignored: at some offset every
\* character of the query agrees with the ticker's after upper-casing
Matches(ticker, q) ==
    \E o \in 0..(Len(ticker) - Len(q)) :
        \A k \in 1..Len(q) : UpperChar(ticker[o + k]) = UpperChar(q[k])

\* the matching tickers in the order of the alias table
Matching(q) ==
    LET Hit(ticker) == Matches(ticker, q)
    IN SelectSeq([i \in 1..TableLen |-> nse_symbols[i][1]], Hit)

\* C9: for a query string, search_stocks returns exactly the tickers that
\* contain it ignoring case, in alias-table order, cut to SearchLimit (none
\* when nothing matches); a match whose enrichment failed is returned with
\* placeholder fields.
C9_SearchMatches ==
    (last.op = "search" /\ IsStr(last.arg))
        => /\ last.out.kind = "return"
           /\ Len(last.out.value)
                 = Min(SearchLimit, Len(Matching(last.arg.v)))
           /\ \A k \in 1..Len(last.out.value) :
                 /\ last.out.value[k].symbol = Str(Matching(last.arg.v)[k])
                 /\ last.out.calls[k].ans.k # "dict"
                       => /\ last.out.value[k].company_name = NA
                          /\ last.out.value[k].sector = NA

\* the query "tc" found TCS although its enrichment raised
C9_FoundWithPlaceholders ==
    /\ last.op = "search"
    /\ last.arg = Str(<<"t", "c">>)
    /\ Len(last.out.value) = 1
    /\ last.out.value[1].symbol = Str(TCS)
    /\ last.out.calls[1].ans = InfoRaise
    /\ last.out.value[1].company_name = NA

\* --------------------------------------------------------- history inputs

HistoryAnswers ==
    {HistRaise, HistFrame(<<>>), HistFrame(<<Row("d2", 10500, 500)>>),
     HistFrame(<<Row("d1", 10000, 400), Row("d2", 10500, 500)>>)}

Periods == {"1mo", "1y"}

HistorySymbols == {Str(TCS), Str(FOO), NumArg, ListArg}

\* calls of SpecHistory begin no later than this
HistoryUntil == 31

NextHistory ==
    \/ \E symbol \in HistorySymbols, period \in Periods,
          hist \in HistoryAnswers :
          /\ clock <= HistoryUntil
          /\ GetHistoricalData(symbol, period, hist, JitterMin, 1)
    \/ clock <= HistoryUntil /\ Idle(HistInterval)

\* get_historical_data under every upstream answer
SpecHistory == Init /\ [][NextHistory]_vars

\* the provider answered the last call of get_historical_data with an empty
\* frame
HistoryWasEmpty ==
    /\ last.out.calls # <<>>
    /\ last.out.calls[1].ans = HistFrame(<<>>)

\* C10: get_historical_data returns the "no data" error result whenever the
\* upstream history is empty, and never a success whose data is empty.
C10_EmptyHistoryIsError ==
    last.op = "hist"
        => /\ last.out.kind = "return"
           /\ HistoryWasEmpty
                 => /\ IsError(last.out.value)
                    /\ last.out.value.error.msg = "No historical data found for"
           /\ ~IsError(last.out.value) => last.out.value.data # <<>>

\* an empty frame was answered with the error result
C10_NoDataReported ==
    /\ last.op = "hist"
    /\ HistoryWasEmpty
    /\ IsError(last.out.value)

\* ------------------------------------------------------ the whole service

\* what callers may pass: server.py hands params["symbol"] and
\* params["query"] over as the JSON values they are
Symbols == {Str(TCS), ListArg}

Infos == {OkInfo(10500, 10000), InfoRaise}

Hists == {HistFrame(<<>>), HistFrame(<<Row("d2", 10500, 500)>>)}

\* one answer for every symbol of a sweep or a search
Envs == {[i \in 1..TableLen |-> [info |-> info, hist |-> HistRaise]] :
            info \in Infos}

SomeQueries == {Str(<<"t","c">>), NumArg}

\* the sleep's random.uniform(0.1, 0.4) at its two ends
Jitters == {JitterMin, JitterMax}

\* how long the provider takes for one request
Latencies == {0, 3}

\* calls begin no later than this
Until == 28

Next ==
    \/ \E symbol \in Symbols, info \in Infos, jitter \in Jitters,
          lat \in Latencies :
          /\ clock <= Until
          /\ GetStockInfo(symbol, info, HistRaise, jitter, lat)
    \/ \E hist \in Hists, jitter \in Jitters, lat \in Latencies :
          /\ clock <= Until
          /\ GetHistoricalData(Str(TCS), "1mo", hist, jitter, lat)
    \/ \E env \in Envs, jitter \in Jitters, lat \in Latencies :
          /\ clock <= Until
          /\ GetTopGainersLosers(env, jitter, lat)
    \/ \E query \in SomeQueries, env \in Envs :
          /\ clock <= Until
          /\ SearchStocks(query, [i \in 1..TableLen |-> env[i].info], 1)
    \/ clock <= Until /\ Idle(HistInterval)

\* the four operations of StockDataProvider called in any order
Spec == Init /\ [][Next]_vars

\* C5: no call of the four operations lets an exception escape; each returns
\* a normal result or an error result.
C5_NoExceptionEscapes == last.out.kind = "return"

\* ----------------------------------------------------- throttle inputs

\* calls of SpecThrottle begin no later than this
ThrottleUntil == 45

NextThrottle ==
    \/ \E symbol \in Symbols, info \in Infos, jitter \in Jitters,
          lat \in Latencies :
          /\ clock <= ThrottleUntil
          /\ GetStockInfo(symbol, info, HistRaise, jitter, lat)
    \/ \E jitter \in Jitters, lat \in Latencies :
          /\ clock <= ThrottleUntil
          /\ GetHistoricalData(Str(TCS), "1mo", HistFrame(<<>>), jitter, lat)
    \/ \E env \in Envs, jitter \in Jitters, lat \in Latencies :
          /\ clock <= ThrottleUntil
          /\ GetTopGainersLosers(env, jitter, lat)
    \/ clock <= ThrottleUntil /\ Idle(HistInterval)

\* the three throttled operations called back to back and with pauses, the
\* sleep's jitter and the provider's latency at both ends
SpecThrottle == Init /\ [][NextThrottle]_vars

\* C1: for each throttled operation, the wrapped function of a call does not
\* start until at least min_interval after the previous call of that
\* operation completed, whether that call returned or raised.
C1_MinIntervalSinceCompletion ==
    \A op \in Ops : last.gaps[op] >= min_interval(op)

\* ----------------------------------------------------- resolution inputs

\* the characters of the symbols tried: the letters of TCS in both cases and
\* the blank
TickerChars == {"t", "T", "c", "C", "s", "S", " "}

\* the longest symbol tried
ResolveLen == 4

\* every string of up to ResolveLen of these characters, and an unknown ticker
ResolveInputs ==
    {Str(FOO)}
    \cup {Str(s) : s \in UNION {[1..n -> TickerChars] : n \in 0..ResolveLen}}

\* resolution reads no state: one step from the initial state shows all of it
NextResolve ==
    \E symbol \in ResolveInputs :
        /\ last.op = "none"
        /\ ResolveTicker(symbol)

\* ticker resolution on every short string
SpecResolve == Init /\ [][NextResolve]_vars

\* s without its leading and trailing blanks
Trimmed(s) ==
    LET inked == {i \in 1..Len(s) : s[i] # " "}
    IN IF inked = {} THEN <<>>
       ELSE SubSeq(s, CHOOSE i \in inked : \A j \in inked : i <= j,
                   CHOOSE i \in inked : \A j \in inked : i >= j)

\* C11: a ticker resolves by its upper-cased, trimmed form: to the provider
\* symbol of the alias it then equals, and to that form followed by ".NS"
\* otherwise (which for this table is the same string).
C11_ResolvedTrimmedAnyCase ==
    last.op = "resolve"
        => last.out.value = Str(Upper(Trimmed(last.arg.v)) \o DotNS)

\* ----------------------------------------------------------- chat history

\* CHAT_CONFIG["max_messages"], the code's 50 scaled down
max_messages == 4

\* the model appends no message after this many
MaxPosted == 11

\* what process_user_query can give as response_type
ResponseTypes == {"text", "stock_info", "chart", "movers", "search"}

\* popular_stocks, and what the user may have typed into the lookup box
PopularStocks == {Str(TCS), Str(INFY)}

\* the number of the newest message; the history is never empty
Newest == messages[Len(messages)].n

\* two appends: what the user asked, then the assistant's answer
Exchange(ms, asked, about, answer) ==
    Append(Append(ms, Message("user", asked, about, ms[Len(ms)].n + 1)),
           Message("assistant", answer, about, ms[Len(ms)].n + 2))

\* lines 535-538: messages[-max_messages:] when longer than max_messages
Truncated(ms) ==
    IF Len(ms) > max_messages
    THEN SubSeq(ms, Len(ms) - max_messages + 1, Len(ms))
    ELSE ms

\* lines 495-538: the user sends a prompt; it and the answer are appended,
\* then the history is cut
ChatInput(response_type) ==
    /\ Newest < MaxPosted
    /\ messages' = Truncated(Exchange(messages, "prompt", NA, response_type))
    /\ UNCHANGED beyond_chat

\* a sidebar button whose request came back as `success`: on success two
\* messages are appended and st.rerun() starts main again, with no chat
\* input in the new run
SidebarButton(asked, about, answer, success) ==
    /\ Newest < MaxPosted
    /\ messages' = IF success THEN Exchange(messages, asked, about, answer)
                   ELSE messages
    /\ UNCHANGED beyond_chat

\* lines 407-420
MarketMovers(success) ==
    SidebarButton("Show market movers", NA, "movers", success)

\* lines 428-441: without a symbol typed in nothing happens
GetStockInfoButton(stock_symbol, success) ==
    SidebarButton("Get info for", stock_symbol, "stock_info",
                  stock_symbol.v # <<>> /\ success)

\* lines 447-461
PopularStock(stock, success) ==
    SidebarButton("Get info for", stock, "stock_info", success)

NextChat ==
    \/ \E response_type \in ResponseTypes : ChatInput(response_type)
    \/ \E success \in BOOLEAN : MarketMovers(success)
    \/ \E stock_symbol \in PopularStocks \cup {Str(<<>>)},
          success \in BOOLEAN : GetStockInfoButton(stock_symbol, success)
    \/ \E stock \in PopularStocks, success \in BOOLEAN :
          PopularStock(stock, success)

\* a user chatting and pressing sidebar buttons in any order
SpecChat == Init /\ [][NextChat]_vars

\* C18: once an interaction has been handled, the history holds at most
\* max_messages messages, and they are the most recent ones in their
\* original order.
C18_HistoryBounded ==
    /\ Len(messages) <= max_messages
    /\ \A i \in 1..(Len(messages) - 1) : messages[i + 1].n = messages[i].n + 1

\* ------------------------------------------------------- request handlers

Max(a, b) == IF a > b THEN a ELSE b

\* a server that lets a handler start while another is inside its call
AnyCanRun(r, who) == TRUE

\* server.py 81-100: the handlers are `async def` and call the data-access
\* layer without awaiting anything, so the event loop, which runs in the one
\* process uvicorn.run starts, takes a handler from its first line to its
\* return before it takes another; `who` is the handler it is running
CanRun(r, who) == who \in {Nobody, r}

\* a request for get_stock, get_historical or get_market_movers arrives
\* while others may be pending or in progress; it takes the lowest free
\* number
Arrive(r, op) ==
    /\ handlers[r].pc = "none"
    /\ \A q \in 1..(r - 1) : handlers[q].pc # "none"
    /\ handlers' = [handlers EXCEPT ![r] = [pc |-> "pending", op |-> op,
                                            wake |-> 0]]
    /\ UNCHANGED <<running, begun, response>>
    /\ UNCHANGED <<data_vars, app_vars>>

\* the event loop takes the handler of request r, which enters the wrapper:
\* line 18 reads last_called[0] and lines 19-20 settle when the sleep ends
Read(r, jitter) ==
    /\ handlers[r].pc = "pending"
    /\ CanRun(r, running)
    /\ running' = r
    /\ handlers' = [handlers EXCEPT
                       ![r].pc = "read",
                       ![r].wake = AfterWait(clock,
                                             last_called[handlers[r].op],
                                             min_interval(handlers[r].op),
                                             jitter)]
    /\ UNCHANGED <<begun, response>>
    /\ UNCHANGED <<data_vars, app_vars>>

\* the time at which request r calls func: its sleep is over no earlier than
\* it asked for
Woken(r) == Max(clock, handlers[r].wake)

\* lines 21-23 and the rest of the handler: func ran and gave res, its
\* completion is recorded, the handler returns
Finish(r, op, arg, res, sweep) ==
    /\ Served(op, arg, res, sweep)
    /\ begun' = begun \o res.m.starts
    /\ handlers' = [handlers EXCEPT ![r] = NoHandler]
    /\ running' = IF running = r THEN Nobody ELSE running
    /\ UNCHANGED <<response, app_vars>>

\* get_stock(symbol) goes on from the sleep of get_stock_info
RunStock(r, symbol, info, lat) ==
    /\ handlers[r].pc = "read"
    /\ handlers[r].op = "stock"
    /\ Finish(r, "stock", symbol,
              stock_info_call(Entered(Now, "stock", Woken(r)), symbol, info,
                              HistRaise, lat),
              <<>>)

\* get_historical(symbol, period) goes on from the sleep of
\* get_historical_data
RunHistorical(r, symbol, period, hist, lat) ==
    /\ handlers[r].pc = "read"
    /\ handlers[r].op = "hist"
    /\ Finish(r, "hist", symbol,
              historical_data_call(Entered(Now, "hist", Woken(r)),
                                   historical_data_body(symbol, period, hist),
                                   lat),
              <<>>)

\* the sweep is kept for observation
MoversFinish(r, res) == Finish(r, "movers", NA, res, res.sweep)

\* get_market_movers() goes on from the sleep of get_top_gainers_losers
RunMovers(r, env, jitter, lat) ==
    /\ handlers[r].pc = "read"
    /\ handlers[r].op = "movers"
    /\ MoversFinish(r, movers_rank(Sweep(Entered(Now, "movers", Woken(r)), 1,
                                         env, jitter, lat)))

\* requests begin no later than this
ServeUntil == 28

\* the path parameter of a request is a string
ServeSymbols == {Str(TCS), Str(INFY)}

NextServe ==
    \/ \E r \in Requests, op \in Ops :
          /\ clock <= ServeUntil
          /\ Arrive(r, op)
    \/ \E r \in Requests, jitter \in Jitters :
          /\ clock <= ServeUntil
          /\ Read(r, jitter)
    \/ \E r \in Requests, symbol \in ServeSymbols, lat \in Latencies :
          RunStock(r, symbol, OkInfo(10500, 10000), lat)
    \/ \E r \in Requests, lat \in Latencies :
          RunHistorical(r, Str(TCS), "1mo",
                        HistFrame(<<Row("d2", 10500, 500)>>), lat)
    \/ \E r \in Requests, env \in Envs :
          RunMovers(r, env, JitterMin, 0)
    \/ /\ clock <= ServeUntil
       /\ running = Nobody
       /\ Idle(HistInterval)

\* requests for the three throttled operations arriving at any time, several
\* pending at once
SpecServe == Init /\ [][NextServe]_vars

McpMethods == {"get_stock_info", "get_historical_data",
               "get_top_gainers_losers", "search_stocks"}

\* the methods that read params["symbol"] or params["query"]
McpWithArg == {"get_stock_info", "get_historical_data", "search_stocks"}

\* `not v` for what params.get(key) gives: None when the key is absent, and
\* the empty string, are falsy
Falsy(v) == v = Missing \/ (IsStr(v) /\ Len(v.v) = 0)

\* lines 45, 52, 61, 65: the request makes the handler raise HTTPException
\* with status 400
Refused(method, arg) ==
    \/ method \notin McpMethods
    \/ method \in McpWithArg /\ Falsy(arg)

\* lines 73-78: whatever was raised inside the try block, an HTTPException
\* included, is caught; the handler returns a dict, which is sent with
\* status 200
Caught(exc, method, arg) == Answered(200, FALSE, Str(exc), method, arg)

\* lines 67-71 after the operation gave `out`, or lines 73-78 when it raised
Replied(out, method, arg) ==
    IF out.kind = "raise" THEN Caught(out.exc, method, arg)
    ELSE Answered(200, TRUE, out.value, method, arg)

\* a request that makes the handler raise HTTPException(400) before any
\* operation is called
McpRefused(method, arg) ==
    /\ Refused(method, arg)
    /\ response' = Caught("HTTPException 400", method, arg)
    /\ last' = NoCall
    /\ UNCHANGED <<clock, last_called, cache, done_at>>
    /\ UNCHANGED <<handlers, running, begun, app_vars>>

\* the handler called a throttled operation, which gave r
McpServed(method, op, arg, r, sweep) ==
    /\ Served(op, arg, r, sweep)
    /\ response' = Replied(r.out, method, arg)
    /\ UNCHANGED <<handlers, running, begun, app_vars>>

\* lines 42-46
McpStockInfo(symbol, info, hist, jitter, lat) ==
    /\ ~Falsy(symbol)
    /\ McpServed("get_stock_info", "stock", symbol,
                 get_stock_info(Now, symbol, info, hist, jitter, lat), <<>>)

\* lines 48-53
McpHistoricalData(symbol, period, hist, jitter, lat) ==
    /\ ~Falsy(symbol)
    /\ McpServed("get_historical_data", "hist", symbol,
                 get_historical_data(Now, symbol, period, hist, jitter, lat),
                 <<>>)

\* the sweep is kept for observation
McpMoversServed(r) ==
    McpServed("get_top_gainers_losers", "movers", NA, r, r.sweep)

\* lines 55-56
McpTopGainersLosers(env, jitter, lat) ==
    McpMoversServed(get_top_gainers_losers(Now, env, jitter, lat))

\* the handler called search_stocks, which gave res
McpSearched(query, res, lat) ==
    /\ SearchServed(query, res, lat)
    /\ response' = Replied(res, "search_stocks", query)
    /\ UNCHANGED <<handlers, running, begun, app_vars>>

\* lines 58-62
McpSearchStocks(query, env, lat) ==
    /\ ~Falsy(query)
    /\ McpSearched(query, search_stocks(query, env), lat)

\* the methods of the requests tried, one of them unknown
McpTried == McpMethods \cup {"get_quote"}

\* params["symbol"] or params["query"] of the requests tried: the key
\* absent, the empty string, a ticker, a list
McpArgs == {Missing, Str(<<>>), Str(TCS), ListArg}

\* requests begin no later than this
McpUntil == 28

NextMcp ==
    \/ \E method \in McpTried, arg \in McpArgs :
          /\ clock <= McpUntil
          /\ McpRefused(method, arg)
    \/ \E symbol \in McpArgs, info \in Infos, lat \in Latencies :
          /\ clock <= McpUntil
          /\ McpStockInfo(symbol, info, HistRaise, JitterMin, lat)
    \/ \E symbol \in McpArgs, hist \in Hists :
          /\ clock <= McpUntil
          /\ McpHistoricalData(symbol, "1mo", hist, JitterMin, 0)
    \/ \E env \in Envs :
          /\ clock <= McpUntil
          /\ McpTopGainersLosers(env, JitterMin, 0)
    \/ \E query \in McpArgs, env \in Envs :
          /\ clock <= McpUntil
          /\ McpSearchStocks(query, [i \in 1..TableLen |-> env[i].info], 1)
    \/ clock <= McpUntil /\ Idle(HistInterval)

\* requests to /mcp, valid and invalid, one after the other
SpecMcp == Init /\ [][NextMcp]_vars

\* C19: a request with an unknown method, or without the symbol or query
\* its method needs, is answered with HTTP status 400 and makes no call of a
\* data-access operation; every other request is answered with success
\* True and the operation's result as data.
C19_InvalidRequestGets400 ==
    response.method # "none" =>
       IF Refused(response.method, response.arg)
       THEN response.status = 400 /\ last.op = "none"
       ELSE response.success /\ response.payload = last.out.value

====
